---- MODULE Spec2Model ----
(***************************************************************************)
(* State-machine model of sctw/topic-rnn:                                  *)
(*   - ConflictDatasetReader (dataset_reader/conflict_dataset_reader.py):  *)
(*     _read, load and the data_loader generator;                          *)
(*   - TopicRNN (topic_rnn_rc/models/topic_rnn.py): init_hidden, forward   *)
(*     and likelihood.                                                     *)
(* Tensors are integer-valued; sequences are 1-based where Python is       *)
(* 0-based, so the Python index i is position i + 1 here.                  *)
(***************************************************************************)
EXTENDS Integers, Sequences, FiniteSets, TLC

VARIABLES
    \* ---- ConflictDatasetReader ----
    batch_size,            \* self.batch_size
    bptt_limit,            \* self.bptt_limit
    examples,              \* self.examples: the list of example dicts
    id_to_title,           \* self.id_to_title
    id_to_term_frequency,  \* self.id_to_term_frequency
    gens,                  \* the generator objects data_loader has returned
    fs,                    \* the files under data_path, in os.listdir order
    loadLog,               \* history: what the last load() call read
    loads,                 \* history: number of load() calls made
    \* ---- TopicRNN ----
    net,                   \* the attributes __init__ fixes
    theta,                 \* self.theta
    last,                  \* history: the last likelihood call that ended
    calls                  \* the likelihood calls in flight, when they overlap

readerVars == <<batch_size, bptt_limit, examples, id_to_title,
                id_to_term_frequency, gens, fs, loadLog, loads>>

modelVars == <<net, theta, last, calls>>

vars == <<readerVars, modelVars>>

(***************************************************************************)
(* Bounds of the model.                                                    *)
(***************************************************************************)
MaxLen == 5        \* longest encoded document
MaxDocs == 2       \* most files in a directory
MaxBptt == 2       \* largest window length
MaxBatch == 2      \* largest batch size
MaxLoads == 2      \* most load() calls in a behaviour
MaxModelBatch == 2 \* largest batch size of the model
MaxLayers == 2     \* most recurrent layers
MaxHidden == 2     \* largest hidden size
MaxTopics == 2     \* largest topic dimensionality
MaxVocab == 3      \* vocabulary size of the model
SeqLen == 2        \* positions in one input window

Max(a, b) == IF a >= b THEN a ELSE b
Min(a, b) == IF a <= b THEN a ELSE b

(***************************************************************************)
(* Python helpers.                                                         *)
(***************************************************************************)
\* s[lo:hi] for 0 <= lo: the slice is clipped to the sequence, never an error.
Slice(s, lo, hi) == SubSeq(s, Min(lo, Len(s)) + 1, Min(hi, Len(s)))

\* range(n) is empty when n <= 0.
RangeLen(n) == Max(0, n)

(***************************************************************************)
(* Documents.  A file is a JSON object whose "title" key is absent, null   *)
(* or a string and whose "text" key is absent or present; encoding is what *)
(* vocabulary.encode_from_text returns for the text (None or a token       *)
(* sequence).                                                              *)
(***************************************************************************)
Absent == "<absent>"
Null == "<null>"
Unset == "<unset>"

\* The token stream the documents are prefixes of: every token distinct.
Encoding(L) == [p \in 1..L |-> p]
Encodings == {Encoding(L) : L \in 0..MaxLen}

GoodDoc(enc) ==
    [title |-> "T", hasText |-> TRUE, encNone |-> FALSE,
     encoding |-> enc]

Docs ==
    {GoodDoc(enc) : enc \in Encodings}
    \cup {[GoodDoc(Encoding(MaxLen)) EXCEPT !.title = Absent],
          [GoodDoc(Encoding(MaxLen)) EXCEPT !.title = Null],
          [GoodDoc(<<>>) EXCEPT !.hasText = FALSE],
          [GoodDoc(<<>>) EXCEPT !.encNone = TRUE]}

Dirs == UNION {[1..n -> Docs] : n \in 1..MaxDocs}

\* The directories the batching behaviours are explored over.
LoaderDirs ==
    {<<GoodDoc(Encoding(MaxLen))>>,
     <<GoodDoc(Encoding(MaxLen)), GoodDoc(Encoding(MaxLen - 1))>>}
DocIds == 0..(MaxDocs - 1)

\* vocabulary.compute_term_frequencies: occurrences of each token.
TermFrequencies(enc) ==
    [t \in 1..MaxLen |-> Cardinality({p \in 1..Len(enc) : enc[p] = t})]

(***************************************************************************)
(* ConflictDatasetReader._read                                             *)
(***************************************************************************)
\* A reader whose loop runs one index further: range(len(encoding) - B).
WindowCountOneMore(enc, B) == RangeLen(Len(enc) - B)

\* Number of iterations of the window loop (line 52).
WindowCount(enc, B) == RangeLen(Len(enc) - B - 1)

\* The dict appended at lines 53-58 for loop index i.
Window(enc, id, i, B) ==
    [id |-> id,
     input |-> Slice(enc, i, i + B),
     target |-> Slice(enc, i + 1, i + 1 + B),
     index |-> i,
     title |-> Unset,
     term_frequency |-> <<>>]

\* Lines 40-41: what the two subscriptions of the parsed object raise.
ReadRaises(doc) ==
    IF doc.title = Absent THEN "KeyError"
    ELSE IF ~doc.hasText THEN "KeyError"
    ELSE ""

\* Line 44: the document is skipped.
ReadSkips(doc) == doc.title = Null \/ doc.encNone

\* The outcome of _read(file, id): the exception raised ("" when it returns),
\* whether the two per-document maps were written, and the list returned.
Read(doc, id, B) ==
    IF ReadRaises(doc) # ""
    THEN [raised |-> ReadRaises(doc), registered |-> FALSE, result |-> <<>>]
    ELSE IF ReadSkips(doc)
    THEN [raised |-> "", registered |-> FALSE, result |-> <<>>]
    ELSE [raised |-> "", registered |-> TRUE,
          result |-> [k \in 1..WindowCount(doc.encoding, B) |->
                         Window(doc.encoding, id, k - 1, B)]]

(***************************************************************************)
(* ConflictDatasetReader.load: the documents are read in order; the first  *)
(* exception ends the loop and leaves load.                                *)
(***************************************************************************)
RECURSIVE LoadFrom(_, _, _)
LoadFrom(dir, k, st) ==
    IF k > Len(dir) THEN st
    ELSE LET r == Read(dir[k], k - 1, st.bptt)
             logged == Append(st.reads, r)
         IN IF r.raised # ""
            THEN [st EXCEPT !.raised = r.raised, !.reads = logged]
            ELSE LoadFrom(dir, k + 1,
                   [st EXCEPT
                      !.examples = @ \o r.result,
                      !.titles = IF r.registered
                                 THEN [@ EXCEPT ![k - 1] = dir[k].title] ELSE @,
                      !.tfs = IF r.registered
                              THEN [@ EXCEPT ![k - 1] =
                                        TermFrequencies(dir[k].encoding)]
                              ELSE @,
                      !.reads = logged])

Load ==
    /\ loads < MaxLoads
    /\ LET dir == fs
           st == LoadFrom(dir, 1,
                   [bptt |-> bptt_limit, examples |-> examples,
                    titles |-> id_to_title, tfs |-> id_to_term_frequency,
                    reads |-> <<>>, raised |-> ""])
       IN /\ examples' = st.examples
          /\ id_to_title' = st.titles
          /\ id_to_term_frequency' = st.tfs
          /\ loadLog' = [dir |-> dir, before |-> examples,
                         reads |-> st.reads, raised |-> st.raised]
    /\ loads' = loads + 1
    /\ UNCHANGED <<batch_size, bptt_limit, gens, fs, modelVars>>

(***************************************************************************)
(* ConflictDatasetReader.data_loader.  The function is a generator: the    *)
(* call only creates the generator object, and the body (lines 97-111)     *)
(* runs inside next(), from the point it was suspended at to the next      *)
(* yield or to the end of the loop.                                        *)
(***************************************************************************)
Rotation(n, r) == [k \in 1..n |-> ((k - 1 + r) % n) + 1]
Reversed(s) == [k \in 1..Len(s) |-> s[Len(s) + 1 - k]]
Identity(n) == [k \in 1..n |-> k]

\* Outcomes of random.shuffle on a list of n elements that the behaviours
\* explore: the list unchanged, rotated by one place, and reversed.
ShuffleOutcomes(n) ==
    IF n = 0 THEN {<<>>}
    ELSE {Identity(n), Rotation(n, 1), Reversed(Identity(n))}

\* The generator objects the behaviours create.
GenIds == {"g1", "g2"}

NoGen ==
    [shuffle |-> FALSE, pc |-> "none", order |-> <<>>, n |-> 0, rounded |-> 0,
     i |-> 0, yielded |-> <<>>]

\* data_loader(shuffle): returns a new generator object; no line of the body
\* has run yet.
DataLoader(j, shuffle) ==
    /\ gens[j].pc = "none"
    /\ gens' = [gens EXCEPT ![j] = [NoGen EXCEPT !.shuffle = shuffle,
                                                 !.pc = "created"]]
    /\ UNCHANGED <<batch_size, bptt_limit, examples, id_to_title,
                   id_to_term_frequency, fs, loadLog, loads, modelVars>>

\* Line 102.
RoundedByBatch(n, b) == (n \div b) * b

\* A loader that keeps the last full batch.
LoopBoundKeepsLast(rounded, b) == rounded

\* Line 103: the loop runs while i < rounded_by_batch - batch_size.
LoopBound(rounded, b) == rounded - b

\* A loader that shuffles self.examples itself instead of a copy.
ShuffledInPlace(exs, order) ==
    IF Len(order) = Len(exs) THEN [k \in 1..Len(exs) |-> exs[order[k]]] ELSE exs

\* Lines 97-100: self.examples after the generator has bound its list; the
\* shuffle is applied to a copy, so the stored list keeps its order.
StoredAfterShuffle(exs, order) == exs

\* Line 104: the list the generator slices.  Without shuffle it is
\* self.examples itself, with shuffle its own shuffled copy; elements are
\* the example objects, named by their position in self.examples.
GenList(g) == IF g.shuffle THEN g.order ELSE Identity(Len(examples))
BatchAt(g, b) == Slice(GenList(g), g.i, g.i + b)

\* Lines 107-110: the dicts of the batch are written in place.
Annotate(exs, batch) ==
    LET members == {batch[k] : k \in 1..Len(batch)}
    IN [p \in 1..Len(exs) |->
          IF p \in members
          THEN [exs[p] EXCEPT !.title = id_to_title[exs[p].id],
                              !.term_frequency = id_to_term_frequency[exs[p].id]]
          ELSE exs[p]]

\* The body from the loop test on, for a generator whose locals are g.
GenResume(j, g, exs) ==
    IF g.i < LoopBound(g.rounded, batch_size)
    THEN LET batch == BatchAt(g, batch_size)
         IN /\ gens' = [gens EXCEPT ![j] =
                          [g EXCEPT !.pc = "suspended",
                                    !.i = g.i + batch_size,
                                    !.yielded = Append(g.yielded, batch)]]
            /\ examples' = Annotate(exs, batch)
    ELSE /\ gens' = [gens EXCEPT ![j] = [g EXCEPT !.pc = "done"]]
         /\ examples' = exs

\* next() on generator j: lines 97-102 on the first call, then the loop.
GenNext(j) ==
    /\ gens[j].pc \in {"created", "suspended"}
    /\ IF gens[j].pc = "created"
       THEN \E order \in (IF gens[j].shuffle
                          THEN ShuffleOutcomes(Len(examples))
                          ELSE {<<>>}) :
               GenResume(j,
                         [gens[j] EXCEPT
                               !.order = order,
                               !.n = Len(examples),
                               !.rounded = RoundedByBatch(Len(examples),
                                                          batch_size),
                               !.i = 0],
                         StoredAfterShuffle(examples, order))
       ELSE GenResume(j, gens[j], examples)
    /\ UNCHANGED <<batch_size, bptt_limit, id_to_title,
                   id_to_term_frequency, fs, loadLog, loads, modelVars>>

(***************************************************************************)
(* TopicRNN.  Real numbers are integers here: theta holds weights in units *)
(* of 1 / ThetaUnit, the Gaussian terms are in units of 1 / FixedOne.      *)
(***************************************************************************)
RECURSIVE SumTo(_, _)
SumTo(f, n) == IF n = 0 THEN 0 ELSE f[n] + SumTo(f, n - 1)

NoTensor == [shape |-> <<>>, data |-> <<>>]
NoHidden == [none |-> TRUE, shape |-> <<>>, data |-> <<>>]
FilledHidden(n, c) ==
    [none |-> FALSE,
     shape |-> <<n.layers, n.batch_size, n.hidden_size>>,
     data |-> [p \in 1..(n.layers * n.batch_size * n.hidden_size) |-> c]]

\* A point of the simplex: the weight sits on topic 1 + (e mod K).
ThetaUnit == MaxTopics + 2
SampleRow(K, e) ==
    [k \in 1..K |-> IF k = 1 + (e % K) THEN ThetaUnit - (K - 1) ELSE 1]
NoiseDraws == 0..1

\* Line 54: the topic-word matrix, topic_dim rows of vocab_size columns.
Beta(K, V) == [k \in 1..K |-> [v \in 1..V |-> k * v]]

\* The sets of stopword ids a model is built with.
StopSets(V) == {{}, {0}, {0, V - 1}}

\* Lines 35-57: the attributes of a constructed model.
Net(h, b, l, u, K, st) ==
    [vocab_size |-> MaxVocab, hidden_size |-> h, batch_size |-> b,
     layers |-> l, use_topics |-> u, topic_dim |-> K, stop_indices |-> st,
     beta |-> Beta(K, MaxVocab)]

\* The models built: every shape of the hidden state, and every topic
\* dimensionality and stopword set.
Nets ==
    {Net(h, b, l, u, MaxTopics, {0}) :
        h \in 1..MaxHidden, b \in 1..MaxModelBatch, l \in 1..MaxLayers,
        u \in BOOLEAN}
    \cup
    {Net(1, b, 1, u, K, st) :
        b \in 1..MaxModelBatch, u \in BOOLEAN, K \in 1..MaxTopics,
        st \in StopSets(MaxVocab)}

\* Lines 47-49: theta after construction, a vector of topic_dim entries.
InitialTheta(K, e) == [shape |-> <<K>>, data |-> SampleRow(K, e)]

\* Lines 97-103: init_hidden(), a zero tensor of (layers, batch, hidden).
InitHidden(n) == FilledHidden(n, 0)

\* Line 132, "not hidden": bool() of a tensor with more than one element
\* raises RuntimeError; of a one-element tensor it is its element's truth
\* value; of None it is False.
BoolRaises(h) == ~h.none /\ Len(h.data) > 1
BoolOf(h) == IF h.none \/ Len(h.data) = 0 THEN FALSE ELSE h.data[1] # 0

\* Line 123, theta.view(batch_size, -1): the elements regrouped in batch_size
\* rows; an error when they do not divide.
ViewRaises(th, bs) == Len(th.data) % bs # 0
ViewRows(th, bs) ==
    LET m == Len(th.data) \div bs
    IN [b \in 1..bs |-> [k \in 1..m |-> th.data[(b - 1) * m + k]]]

\* Line 123, torch.mm: an error unless the row length is beta's row count.
MmRaises(rows, beta) == Len(rows[1]) # Len(beta)
Mm(rows, beta) ==
    [b \in 1..Len(rows) |->
        [v \in 1..Len(beta[1]) |->
            SumTo([k \in 1..Len(beta) |-> rows[b][k] * beta[k][v]], Len(beta))]]

\* A model that indexes the bias without transposing it: rows are zeroed.
ZeroStopRows(add, stops) ==
    [b \in 1..Len(add) |->
        [v \in 1..Len(add[b]) |-> IF (b - 1) \in stops THEN 0 ELSE add[b][v]]]

\* Line 124: the columns of the stopword ids are set to zero (ids count from
\* 0, columns from 1).
ZeroStopColumns(add, stops) ==
    [b \in 1..Len(add) |->
        [v \in 1..Len(add[b]) |-> IF (v - 1) \in stops THEN 0 ELSE add[b][v]]]

\* Lines 125-126: the bias repeated at every position and added.
AddAtEveryPosition(decoded, add) ==
    [b \in 1..Len(decoded) |->
        [p \in 1..Len(decoded[b]) |->
            [v \in 1..Len(decoded[b][p]) |-> decoded[b][p][v] + add[b][v]]]]

\* Lines 105-128, forward: decoded is the decoder's output of line 116, th the
\* stored theta when line 123 runs.
Forward(n, th, decoded) ==
    IF ~n.use_topics
    THEN [raised |-> "", output |-> decoded]
    ELSE IF ViewRaises(th, n.batch_size)
    THEN [raised |-> "RuntimeError", output |-> <<>>]
    ELSE IF MmRaises(ViewRows(th, n.batch_size), n.beta)
    THEN [raised |-> "RuntimeError", output |-> <<>>]
    ELSE [raised |-> "",
          output |-> AddAtEveryPosition(decoded,
                        ZeroStopColumns(Mm(ViewRows(th, n.batch_size), n.beta),
                                        n.stop_indices))]

\* The unit of the Gaussian terms (the literal 1 of line 148).
FixedOne == 2000

\* torch.exp at the arguments the behaviours use, in units of 1 / FixedOne,
\* rounded to an even number of units.
ExpFixed(x) ==
    CASE x = -2 -> 270
      [] x = 0 -> FixedOne
      [] x = 2 -> 14778

\* Lines 148-149: the sum over all elements, halved.
NegKlDiv(mu, log_sigma) ==
    SumTo([p \in 1..Len(mu) |->
              FixedOne * (1 + 2 * log_sigma[p] - mu[p] * mu[p])
              - ExpFixed(2 * log_sigma[p])], Len(mu)) \div 2

\* A model that runs the inference whenever term frequencies are given.
InfersWheneverGiven(n, inp) == inp.tf_present

\* Line 137.
InfersTopics(n, inp) == inp.tf_present /\ n.use_topics

\* Lines 152-153: theta sampled from mu, log_sigma and the noise drawn; one
\* row per row of mu.
SampledTheta(n, inp) ==
    [shape |-> <<n.batch_size, n.topic_dim>>,
     data |-> [p \in 1..(n.batch_size * n.topic_dim) |->
                  SampleRow(n.topic_dim, inp.noise)[((p - 1) % n.topic_dim) + 1]]]

\* A model that keeps the sample in a local and never stores it.
ThetaNotStored(old, sampled) == old

\* Line 153: the assignment to self.theta.
ThetaStored(old, sampled) == sampled

\* Lines 132-153 of likelihood: the hidden state, the KL term and the update
\* of theta.  th is the stored theta when the call starts.
Prologue(n, th, inp) ==
    IF BoolRaises(inp.hidden)
    THEN [raised |-> "RuntimeError", hidden |-> inp.hidden, neg_kl_div |-> 0,
          sampled |-> NoTensor, theta |-> th]
    ELSE LET hidden == IF ~BoolOf(inp.hidden) THEN InitHidden(n)
                       ELSE inp.hidden
         IN IF InfersTopics(n, inp)
            THEN [raised |-> "", hidden |-> hidden,
                  neg_kl_div |-> NegKlDiv(inp.mu, inp.log_sigma),
                  sampled |-> SampledTheta(n, inp),
                  theta |-> ThetaStored(th, SampledTheta(n, inp))]
            ELSE [raised |-> "", hidden |-> hidden, neg_kl_div |-> 0,
                  sampled |-> NoTensor, theta |-> th]

\* A model that adds the negated KL term instead of subtracting it.
KlTermNotNegated(neg_kl_div) == neg_kl_div

\* Line 161: what is added to the cross-entropy.
KlTermOfLoss(neg_kl_div) == -neg_kl_div

NoLoss == [cross_entropy_of |-> [logits |-> <<>>, target |-> <<>>], plus |-> 0]

\* Lines 155-161 of likelihood: forward, the cross-entropy and the returned
\* pair.  th is the stored theta when line 155 runs.  The cross-entropy is
\* kept as the pair of its arguments.
Epilogue(n, th, pro, inp) ==
    LET fw == Forward(n, th, inp.decoded)
    IN IF fw.raised # ""
       THEN [raised |-> fw.raised, returned |-> FALSE, consumed |-> th,
             logits |-> <<>>, loss |-> NoLoss,
             hidden_out |-> [updated_from |-> NoHidden]]
       ELSE [raised |-> "", returned |-> TRUE, consumed |-> th,
             logits |-> fw.output,
             loss |-> [cross_entropy_of |->
                          [logits |-> fw.output, target |-> inp.target],
                       plus |-> KlTermOfLoss(pro.neg_kl_div)],
             hidden_out |-> [updated_from |-> pro.hidden]]

NoEpilogue ==
    [raised |-> "", returned |-> FALSE, consumed |-> NoTensor, logits |-> <<>>,
     loss |-> NoLoss, hidden_out |-> [updated_from |-> NoHidden]]

\* What is recorded of a call: its arguments, the stored theta when it
\* started, and what its two parts did.
CallRecord(inp, before, pro, epi) ==
    [called |-> TRUE, inp |-> inp, theta_before |-> before,
     raised_at |-> IF pro.raised # "" THEN "hidden"
                   ELSE IF epi.raised # "" THEN "forward" ELSE "",
     rnn_hidden |-> pro.hidden, neg_kl_div |-> pro.neg_kl_div,
     sampled |-> pro.sampled, consumed |-> epi.consumed,
     logits |-> epi.logits, returned |-> epi.returned, loss |-> epi.loss,
     hidden_out |-> epi.hidden_out]

(***************************************************************************)
(* The arguments of a likelihood call.                                     *)
(***************************************************************************)
\* The decoder's output: a flat tensor and one that differs at every place.
PlainLogits(n) ==
    {[b \in 1..n.batch_size |->
         [p \in 1..SeqLen |-> [v \in 1..n.vocab_size |-> c * (b + 2 * p + 3 * v)]]]
       : c \in 0..1}

Targets(n) == {[b \in 1..n.batch_size |-> [p \in 1..SeqLen |-> 0]]}

GaussFill(n, c) == [p \in 1..(n.batch_size * n.topic_dim) |-> c]

NoInput(n) ==
    [hidden |-> NoHidden, tf_present |-> FALSE, mu |-> <<>>,
     log_sigma |-> <<>>, noise |-> 0,
     decoded |-> CHOOSE d \in PlainLogits(n) : d[1][1][1] # 0,
     target |-> CHOOSE t \in Targets(n) : TRUE]

\* The (mu, log_sigma) pairs lines 141-142 produce, each filling its tensor.
Gaussians == {<<0, 0>>, <<1, 0>>, <<0, 1>>, <<-1, -1>>}

CallInput(n, h, tf, g, e, d, t) ==
    [hidden |-> h, tf_present |-> tf,
     mu |-> IF tf THEN GaussFill(n, g[1]) ELSE <<>>,
     log_sigma |-> IF tf THEN GaussFill(n, g[2]) ELSE <<>>,
     noise |-> e, decoded |-> d, target |-> t]

\* Every call the sequential behaviours make: each hidden state with and
\* without term frequencies, and each Gaussian, noise and decoder output
\* with no hidden state.
Inputs(n) ==
    {CallInput(n, h, tf, <<0, 0>>, 0, NoInput(n).decoded, t) :
        h \in {NoHidden, FilledHidden(n, 0), FilledHidden(n, 1)},
        tf \in BOOLEAN, t \in Targets(n)}
    \cup
    {CallInput(n, NoHidden, FALSE, <<0, 0>>, 0, d, t) :
        d \in PlainLogits(n), t \in Targets(n)}
    \cup
    {CallInput(n, NoHidden, TRUE, g, e, d, t) :
        g \in Gaussians, e \in NoiseDraws, d \in PlainLogits(n),
        t \in Targets(n)}

\* The calls the overlapping behaviours make.
OverlapInputs(n) ==
    {inp \in Inputs(n) :
        /\ inp.hidden = NoHidden
        /\ inp.decoded = NoInput(n).decoded
        /\ inp.tf_present => (inp.mu = GaussFill(n, 0)
                              /\ inp.log_sigma = GaussFill(n, 0))}

(***************************************************************************)
(* likelihood as one step: the call runs from line 132 to line 161 with no *)
(* other call in between.                                                  *)
(***************************************************************************)
Likelihood(inp) ==
    /\ LET pro == Prologue(net, theta, inp)
       IN IF pro.raised # ""
          THEN /\ theta' = pro.theta
               /\ last' = CallRecord(inp, theta, pro, NoEpilogue)
          ELSE /\ theta' = pro.theta
               /\ last' = CallRecord(inp, theta, pro,
                                     Epilogue(net, pro.theta, pro, inp))
    /\ UNCHANGED <<net, calls, readerVars>>

(***************************************************************************)
(* likelihood as two steps of a caller c, for callers that overlap.        *)
(***************************************************************************)
CallIds == {"c1", "c2"}

NoCall ==
    [called |-> FALSE, inp |-> <<>>, theta_before |-> NoTensor,
     raised_at |-> "", rnn_hidden |-> NoHidden, neg_kl_div |-> 0,
     sampled |-> NoTensor, consumed |-> NoTensor, logits |-> <<>>,
     returned |-> FALSE, loss |-> NoLoss,
     hidden_out |-> [updated_from |-> NoHidden]]

IdleCall == [pc |-> "idle", overlapped |-> FALSE, rec |-> NoCall]

InFlight(c) == calls[c].pc = "inflight"

\* Lines 132-153 run for caller c.
Enter(c, inp) ==
    /\ calls[c].pc # "inflight"
    /\ LET pro == Prologue(net, theta, inp)
           others == \E d \in CallIds : d # c /\ InFlight(d)
       IN /\ theta' = pro.theta
          /\ calls' = [d \in CallIds |->
                         IF d = c
                         THEN [pc |-> IF pro.raised # "" THEN "ended"
                                      ELSE "inflight",
                               overlapped |-> others,
                               rec |-> CallRecord(inp, theta, pro, NoEpilogue)]
                         ELSE IF InFlight(d)
                         THEN [calls[d] EXCEPT !.overlapped = TRUE]
                         ELSE calls[d]]
    /\ UNCHANGED <<net, last, readerVars>>

\* Lines 155-161 run for caller c.
Finish(c) ==
    /\ InFlight(c)
    /\ LET rec == calls[c].rec
           pro == [raised |-> "", hidden |-> rec.rnn_hidden,
                   neg_kl_div |-> rec.neg_kl_div, sampled |-> rec.sampled,
                   theta |-> theta]
       IN calls' = [calls EXCEPT
                      ![c] = [pc |-> "ended", overlapped |-> calls[c].overlapped,
                              rec |-> CallRecord(rec.inp, rec.theta_before, pro,
                                         Epilogue(net, theta, pro, rec.inp))]]
    /\ UNCHANGED <<net, theta, last, readerVars>>

(***************************************************************************)
(* The reader after construction (lines 18-27).                            *)
(***************************************************************************)
NewReader ==
    /\ examples = <<>>
    /\ id_to_title = [d \in DocIds |-> Unset]
    /\ id_to_term_frequency = [d \in DocIds |-> <<>>]
    /\ gens = [j \in GenIds |-> NoGen]
    /\ loadLog = [dir |-> <<>>, before |-> <<>>, reads |-> <<>>, raised |-> ""]
    /\ loads = 0

\* The model after construction (lines 35-57).
NewModel ==
    /\ net \in Nets
    /\ \E e \in NoiseDraws : theta = InitialTheta(net.topic_dim, e)
    /\ last = NoCall
    /\ calls = [c \in CallIds |-> IdleCall]

\* No model is built in the behaviours of the reader, no reader in those of
\* the model.
NoModel ==
    /\ net = CHOOSE n \in Nets : TRUE
    /\ theta = NoTensor
    /\ last = NoCall
    /\ calls = [c \in CallIds |-> IdleCall]

NoReader ==
    /\ batch_size = 1
    /\ bptt_limit = SeqLen
    /\ fs = <<>>
    /\ NewReader

\* Reading: any directory, any window length.
InitRead ==
    /\ batch_size \in 1..MaxBatch
    /\ bptt_limit \in 0..MaxBptt
    /\ fs \in Dirs
    /\ NewReader
    /\ NoModel

NextRead == Load

SpecRead == InitRead /\ [][NextRead]_vars

\* Batching: directories of well-formed documents.
InitLoader ==
    /\ batch_size \in 1..MaxBatch
    /\ bptt_limit \in {MaxBptt - 1, MaxBptt}
    /\ fs \in LoaderDirs
    /\ NewReader
    /\ NoModel

NextLoader ==
    \/ Load
    \/ \E j \in GenIds, shuffle \in BOOLEAN : DataLoader(j, shuffle)
    \/ \E j \in GenIds : GenNext(j)

SpecLoader == InitLoader /\ [][NextLoader]_vars

\* The model under the sequential-call discipline.
InitModel == NewModel /\ NoReader

NextModel == \E inp \in Inputs(net) : Likelihood(inp)

SpecModel == InitModel /\ [][NextModel]_vars

\* The model with callers that may overlap.
InitOverlap ==
    /\ NewModel
    /\ net.use_topics
    /\ net.layers = 1
    /\ net.hidden_size = 1
    /\ net.stop_indices = {}
    /\ NoReader

NextOverlap ==
    \/ \E c \in CallIds, inp \in OverlapInputs(net) : Enter(c, inp)
    \/ \E c \in CallIds : Finish(c)

SpecOverlap == InitOverlap /\ [][NextOverlap]_vars

(***************************************************************************)
(* Properties of the reader.                                               *)
(***************************************************************************)
\* The windows the specification describes for an encoding of length L and a
\* window length B: max(0, L - B - 1) of them, window i holding index i,
\* input = encoding[i .. i+B-1] and target = encoding[i+1 .. i+B].
WindowsAsSpecified(result, enc, B) ==
    /\ Len(result) = Max(0, Len(enc) - B - 1)
    /\ \A i \in 0..(Len(enc) - B - 2) :
         /\ result[i + 1].index = i
         /\ Len(result[i + 1].input) = B
         /\ Len(result[i + 1].target) = B
         /\ \A m \in 1..B :
              /\ result[i + 1].input[m] = enc[i + m]
              /\ result[i + 1].target[m] = enc[i + 1 + m]
         /\ \A m \in 1..(B - 1) :
              result[i + 1].target[m] = result[i + 1].input[m + 1]

\* The documents of the last load for which _read produced an encoding.
ReadEncoded(k) ==
    /\ loadLog.reads[k].raised = ""
    /\ ~loadLog.dir[k].encNone

\* C1 as stated: every document with an encoded token sequence of length L
\* yields exactly max(0, L - B - 1) windows, target being input shifted by one.
C1_AsStated ==
    \A k \in 1..Len(loadLog.reads) :
       ReadEncoded(k) =>
          WindowsAsSpecified(loadLog.reads[k].result,
                             loadLog.dir[k].encoding, bptt_limit)

\* C1 as amended: every document with a non-null title and an encoded token
\* sequence of length L yields exactly max(0, L - B - 1) windows, window i
\* holding index i, input = encoding[i .. i+B-1], target = encoding[i+1 .. i+B].
C1_WindowsOfTitledDocuments ==
    \A k \in 1..Len(loadLog.reads) :
       (ReadEncoded(k) /\ loadLog.dir[k].title # Null) =>
          WindowsAsSpecified(loadLog.reads[k].result,
                             loadLog.dir[k].encoding, bptt_limit)

\* A titled document that produced at least two windows of positive length.
C1_Witness ==
    \E k \in 1..Len(loadLog.reads) :
       /\ ReadEncoded(k)
       /\ loadLog.dir[k].title # Null
       /\ Len(loadLog.reads[k].result) >= 2
       /\ bptt_limit >= 2

RECURSIVE Concat(_)
Concat(lists) ==
    IF lists = <<>> THEN <<>> ELSE Head(lists) \o Concat(Tail(lists))

\* A document whose title or encoding is missing or unavailable.
Unavailable(doc) ==
    \/ doc.title \in {Absent, Null}
    \/ ~doc.hasText
    \/ doc.encNone

\* C3: a document whose title or encoding is missing or unavailable adds no
\* example, no exception leaves the per-document read step, and the examples
\* of all the other documents are loaded.
C3_UnavailableDocumentsAreSkipped ==
    loads > 0 =>
       /\ loadLog.raised = ""
       /\ Len(loadLog.reads) = Len(loadLog.dir)
       /\ \A k \in 1..Len(loadLog.reads) :
            Unavailable(loadLog.dir[k]) =>
               /\ loadLog.reads[k].raised = ""
               /\ loadLog.reads[k].result = <<>>
       /\ examples = loadLog.before
                     \o Concat([k \in 1..Len(loadLog.reads) |->
                                   loadLog.reads[k].result])

\* The order of one epoch: the shuffled copy, or the stored list as it was.
EpochOrder(g) == IF g.shuffle THEN g.order ELSE Identity(g.n)

Started(g) == g.pc \in {"suspended", "done"}

BatchMembers(batch) == {batch[m] : m \in 1..Len(batch)}

Core(exs) ==
    [p \in 1..Len(exs) |->
        [id |-> exs[p].id, input |-> exs[p].input, target |-> exs[p].target,
         index |-> exs[p].index]]

IsPermutation(s, n) ==
    /\ Len(s) = n
    /\ {s[p] : p \in 1..n} = 1..n

IsPrefix(s, t) == Len(s) <= Len(t) /\ SubSeq(t, 1, Len(s)) = s

\* Every started epoch runs over all the examples loaded when it started,
\* from the first one on, whatever the other generators have done.
FreshEpochs ==
    \A j \in GenIds :
       LET g == gens[j]
       IN Started(g) =>
             /\ IsPermutation(EpochOrder(g), g.n)
             /\ g.i = Len(g.yielded) * batch_size
             /\ g.i <= g.n
             /\ \A k \in 1..Len(g.yielded) :
                  g.yielded[k] = SubSeq(EpochOrder(g), (k - 1) * batch_size + 1,
                                        k * batch_size)

\* Two epochs without shuffle over the same stored list yield the same
\* batches in the same order.
UnshuffledEpochsAgree ==
    \A j1, j2 \in GenIds :
       LET g1 == gens[j1]
           g2 == gens[j2]
       IN (Started(g1) /\ Started(g2) /\ ~g1.shuffle /\ ~g2.shuffle
           /\ g1.n = g2.n) =>
             /\ IsPrefix(g1.yielded, g2.yielded)
                \/ IsPrefix(g2.yielded, g1.yielded)
             /\ (g1.pc = "done" /\ g2.pc = "done") => g1.yielded = g2.yielded

\* A step of data_loader or of one of its generators.
LoaderStep == gens' # gens

\* C9: data_loader is restartable per call: every call starts a fresh,
\* finite epoch over all loaded examples whatever earlier calls and partly
\* consumed generators did; no call changes the membership, order or length
\* of the stored example list; without shuffle two calls yield the same
\* sequence of batches.
C9_RestartablePerCall ==
    /\ [](FreshEpochs /\ UnshuffledEpochsAgree)
    /\ [][LoaderStep => Core(examples') = Core(examples)]_vars
    /\ [][\A j \in GenIds :
             (gens[j].pc = "created" /\ gens'[j].pc # "created") =>
                gens'[j].n = Len(examples)]_vars

\* Two epochs without shuffle over the same list: one has ended after two
\* batches or more, the other is partly consumed, one batch yielded.
C9_Witness ==
    \E j1, j2 \in GenIds :
       /\ j1 # j2
       /\ ~gens[j1].shuffle /\ ~gens[j2].shuffle
       /\ gens[j1].pc = "done" /\ Len(gens[j1].yielded) >= 2
       /\ gens[j2].pc = "suspended" /\ Len(gens[j2].yielded) = 1
       /\ gens[j1].n = gens[j2].n

(***************************************************************************)
(* Properties of the model.                                                *)
(***************************************************************************)
\* The call ran without topic inference being asked for or enabled.
TopicsOff(rec) == ~rec.inp.tf_present \/ ~net.use_topics

\* C4: a likelihood call with absent term frequencies or with topics
\* disabled adds a KL term of exactly zero to the loss and leaves the stored
\* theta as it was before the call, whatever calls came before.
C4_NoInferenceLeavesTheta ==
    (last.called /\ TopicsOff(last)) =>
       /\ last.neg_kl_div = 0
       /\ last.loss.plus = 0
       /\ theta = last.theta_before

\* A returned call without term frequencies on a model with topics enabled
\* whose theta an earlier call had replaced; the theta is still that one.
C4_Witness ==
    /\ last.called
    /\ ~last.inp.tf_present
    /\ net.use_topics
    /\ last.returned
    /\ Len(theta.shape) = 2
    /\ net.batch_size > 1

\* C5: a likelihood call with absent term frequencies, or on a model with
\* topics disabled, completes without error and feeds the cross-entropy the
\* plain decoder output, with no topic term added.
C5_TopicPathwayIsDisabled ==
    (last.called /\ last.inp.hidden.none /\ TopicsOff(last)) =>
       /\ last.returned
       /\ last.logits = last.inp.decoded

\* The entry of the consumed theta for batch element b and topic k.
ThetaEntry(rec, b, k) == rec.consumed.data[(b - 1) * net.topic_dim + k]

\* theta . beta for batch element b and vocabulary column v.
ThetaDotBeta(rec, b, v) ==
    SumTo([k \in 1..net.topic_dim |-> ThetaEntry(rec, b, k) * net.beta[k][v]],
          net.topic_dim)

\* C6: with topic injection enabled the bias added to the decoder output is
\* zero at every stopword column, for every batch element and position, and
\* theta . beta at every other column.
C6_StopwordColumnsCarryNoBias ==
    (last.called /\ net.use_topics /\ last.returned) =>
       \A b \in 1..net.batch_size, p \in 1..SeqLen, v \in 1..net.vocab_size :
          LET bias == last.logits[b][p][v] - last.inp.decoded[b][p][v]
          IN IF (v - 1) \in net.stop_indices
             THEN bias = 0
             ELSE bias = ThetaDotBeta(last, b, v)

\* A returned call on a batch of two or more with stopwords, whose theta was
\* sampled in the call.
C6_Witness ==
    /\ last.called
    /\ net.use_topics
    /\ last.returned
    /\ last.inp.tf_present
    /\ net.stop_indices # {}
    /\ net.batch_size > 1

\* KL = -1/2 * sum(1 + 2 * log_sigma - mu^2 - exp(2 * log_sigma)).
TrueKL(mu, log_sigma) ==
    (0 - SumTo([p \in 1..Len(mu) |->
                   FixedOne * (1 + 2 * log_sigma[p] - mu[p] * mu[p])
                   - ExpFixed(2 * log_sigma[p])], Len(mu))) \div 2

AllZero(t) == \A p \in 1..Len(t) : t[p] = 0

\* C7: the loss returned is the cross-entropy of the logits against the
\* targets plus the true KL divergence; the KL term is zero when mu = 0 and
\* log_sigma = 0, for every topic dimensionality.
C7_LossIsCrossEntropyPlusKL ==
    (last.called /\ last.returned) =>
       /\ last.loss.cross_entropy_of =
             [logits |-> last.logits, target |-> last.inp.target]
       /\ last.loss.plus =
             IF TopicsOff(last) THEN 0
             ELSE TrueKL(last.inp.mu, last.inp.log_sigma)
       /\ (~TopicsOff(last) /\ AllZero(last.inp.mu)
           /\ AllZero(last.inp.log_sigma)) => last.loss.plus = 0

\* A returned call whose KL divergence is positive, with two topics or more.
C7_Witness ==
    /\ last.called
    /\ last.returned
    /\ ~TopicsOff(last)
    /\ last.loss.plus > 0
    /\ net.topic_dim > 1

\* C8: with no hidden state the recurrent model runs from a zero state of
\* shape (layers, batch_size, hidden_size) and no error is raised; a
\* supplied hidden state is passed on unchanged; in both cases the call gets
\* as far as returning the loss with the updated hidden state.
C8_HiddenStateHandling ==
    last.called =>
       /\ last.raised_at # "hidden"
       /\ last.inp.hidden.none =>
             /\ last.rnn_hidden.shape =
                   <<net.layers, net.batch_size, net.hidden_size>>
             /\ AllZero(last.rnn_hidden.data)
       /\ ~last.inp.hidden.none => last.rnn_hidden = last.inp.hidden
       /\ last.returned => last.hidden_out.updated_from = last.rnn_hidden

\* A call that ran its forward pass with term frequencies given.
Consumed(c) ==
    /\ calls[c].pc = "ended"
    /\ calls[c].rec.raised_at # "hidden"
    /\ calls[c].rec.inp.tf_present

\* C10: a likelihood call with term frequencies, on a model with topics
\* enabled, that no other call overlaps consumes in its forward pass the
\* theta sampled in that call, never one an earlier call left.
C10_SequentialCallsConsumeOwnTheta ==
    \A c \in CallIds :
       (Consumed(c) /\ ~calls[c].overlapped) =>
          calls[c].rec.consumed = calls[c].rec.sampled

\* A call that nothing overlapped consumed its own theta where an earlier
\* call had left another one, and a call that another one overlapped
\* consumed the theta that one wrote.
C10_Witness ==
    \E c, d \in CallIds :
       /\ Consumed(c) /\ ~calls[c].overlapped
       /\ calls[c].rec.consumed = calls[c].rec.sampled
       /\ Len(calls[c].rec.theta_before.shape) = 2
       /\ calls[c].rec.theta_before # calls[c].rec.sampled
       /\ Consumed(d) /\ calls[d].overlapped
       /\ calls[d].rec.consumed # calls[d].rec.sampled

====
